---- MODULE Spec2Model ----
(***************************************************************************)
(* Model of spike_controller.py: monitor_device, the monitoring session    *)
(* that frames the serial byte stream on carriage returns, decodes each    *)
(* line as a telemetry message, runs the press/release edge detector and   *)
(* emits mouse clicks.                                                     *)
(*                                                                         *)
(* Bytes are small integers.  13 is the carriage return.  Every other      *)
(* value stands for a block of line text (see Catalogue): a line is the    *)
(* concatenation of its blocks.                                            *)
(***************************************************************************)
EXTENDS Integers, Sequences, FiniteSets, TLC

VARIABLES
    pc,          \* position of monitor_device
    exit,        \* how monitor_device ended ("" while it runs)
    ser,         \* the serial handle: "absent", "open" or "closed"
    opens,       \* number of times the port was opened
    threshold,   \* argument of monitor_device
    recv_buf,    \* the receive buffer (sequence of bytes)
    is_pressed,  \* edge detector state
    pending,     \* lines[:-1] not yet processed; its head is the current line
    idx,         \* position in message['p'] of the item being processed, 0 if none
    log,         \* side effects of the last payload item, in order
    inLine,      \* history of the current line: is_pressed, the number of clicks
                 \* and of readings when it was taken, and how often it has
                 \* changed is_pressed since
    stream,      \* history: every byte returned by read_until so far
    emitted,     \* history: every non-empty line handed to the decoder
    readings,    \* history: every (force, touched) that reached the click logic
    clickAt,     \* history: for each click, the index in readings that caused it
    mpc,         \* position of main ("running" once it has called monitor_device)
    file,        \* the config file spike_config.json
    config,      \* main: what load_config returned
    comports,    \* the endpoints of the last enumeration
    spike_port,  \* main: the device path, "" for None
    serial_number,      \* main: the serial number, "" for None
    trigger_threshold,  \* main: what the threshold prompt returned
    selects,     \* history: number of calls of select_device
    saves        \* history: number of calls of save_config

monitorVars == <<pc, exit, ser, opens, threshold, recv_buf, is_pressed, pending, idx,
                 log, inLine, stream, emitted, readings, clickAt>>

mainVars == <<mpc, file, config, comports, spike_port, serial_number,
              trigger_threshold, selects, saves>>

vars == <<monitorVars, mainVars>>

(***************************************************************************)
(* Program constants                                                       *)
(***************************************************************************)
CR == 13
SensorUpdate == 0
ForcePort == 63
InstantMode == 1

(***************************************************************************)
(* Bounds of the model                                                     *)
(***************************************************************************)
MaxStream == 6
MaxFramed == 7
MaxChunk == 3
MaxReadings == 5
MaxPorts == 2
MaxSaves == 2

Thresholds == {1, 4, 5}

(***************************************************************************)
(* Line framing: bytearray.split, bytearray.rfind                          *)
(***************************************************************************)
HasCR(buf) == \E i \in 1..Len(buf) : buf[i] = CR

\* bytes.find(b'\r'), 1-based; 0 when absent (Python: -1)
Find(buf) ==
    IF HasCR(buf)
    THEN CHOOSE i \in 1..Len(buf) : buf[i] = CR /\ \A j \in 1..(i-1) : buf[j] # CR
    ELSE 0

\* bytes.rfind(b'\r'), 1-based; 0 when absent (Python: -1)
RFind(buf) ==
    IF HasCR(buf)
    THEN CHOOSE i \in 1..Len(buf) : buf[i] = CR /\ \A j \in (i+1)..Len(buf) : buf[j] # CR
    ELSE 0

\* recv_buf.split(b'\r')
RECURSIVE Split(_)
Split(buf) ==
    IF Find(buf) = 0
    THEN <<buf>>
    ELSE <<SubSeq(buf, 1, Find(buf) - 1)>> \o Split(SubSeq(buf, Find(buf) + 1, Len(buf)))

\* (variant: lines, the unfinished tail included)
AllSegments(buf) == Split(buf)

\* lines[:-1]
CompleteLines(buf) == SubSeq(Split(buf), 1, Len(Split(buf)) - 1)

\* (variant: find in place of rfind)
KeepFromFirst(buf) == SubSeq(buf, Find(buf) + 1, Len(buf))

\* recv_buf[recv_buf.rfind(b'\r')+1:]
Remainder(buf) == SubSeq(buf, RFind(buf) + 1, Len(buf))

(***************************************************************************)
(* Telemetry messages.  A decoded JSON value is a record                   *)
(*   obj    it is a JSON object                                            *)
(*   hasM, m     it has key "m", and the value of message['m']             *)
(*   hasP, iter  it has key "p", and message['p'] can be iterated          *)
(*   p      the payload entries                                            *)
(* and a payload entry is a record                                         *)
(*   list   isinstance(item, list)                                         *)
(*   n      len(item);  port  item[0]                                      *)
(*   vkind  what item[1] is: "list", "num" or "obj";  vn  len(item[1])     *)
(*   fnum   item[1][0] is a number;  force  item[1][0];  touch  item[1][1] *)
(***************************************************************************)
Entry(port, force, touch) ==
    [list |-> TRUE, n |-> 2, port |-> port, vkind |-> "list", vn |-> 2,
     fnum |-> TRUE, force |-> force, touch |-> touch]

Scalar == [Entry(0, 0, 0) EXCEPT !.list = FALSE, !.n = 0]

Message(m, p) ==
    [obj |-> TRUE, hasM |-> TRUE, m |-> m, hasP |-> TRUE, iter |-> TRUE, p |-> p]

NoMessage == [Message(0, <<>>) EXCEPT !.obj = FALSE, !.hasM = FALSE, !.hasP = FALSE]

\* The text each block stands for, and what json.loads makes of it.
Catalogue ==
    [b \in 1..24 |->
       CASE b = 1  -> [utf8 |-> TRUE, json |-> TRUE,    \* {"m":0,"p":[[63,[5,1]]]}
                       msg |-> Message(0, <<Entry(63, 5, 1)>>)]
         [] b = 2  -> [utf8 |-> TRUE, json |-> TRUE,    \* {"m":0,"p":[[63,[3,0]]]}
                       msg |-> Message(0, <<Entry(63, 3, 0)>>)]
         [] b = 3  -> [utf8 |-> TRUE, json |-> TRUE,    \* {"m":0,"p":[[63,[6,0]]]}
                       msg |-> Message(0, <<Entry(63, 6, 0)>>)]
         [] b = 4  -> [utf8 |-> TRUE, json |-> TRUE,    \* {"m":0,"p":[[63,[4,1]]]}
                       msg |-> Message(0, <<Entry(63, 4, 1)>>)]
         [] b = 5  -> [utf8 |-> TRUE, json |-> TRUE,    \* {"m":1,"p":[[63,[5,1]]]}
                       msg |-> Message(1, <<Entry(63, 5, 1)>>)]
         [] b = 6  -> [utf8 |-> TRUE, json |-> TRUE,    \* {"m":0,"p":[[99,[5,1]]]}
                       msg |-> Message(0, <<Entry(99, 5, 1)>>)]
         [] b = 7  -> [utf8 |-> FALSE, json |-> FALSE,  \* b'\xff'
                       msg |-> NoMessage]
         [] b = 8  -> [utf8 |-> TRUE, json |-> FALSE,   \* {"m":
                       msg |-> NoMessage]
         [] b = 9  -> [utf8 |-> TRUE, json |-> TRUE,    \* {"p":[[63,[5,1]]]}
                       msg |-> [Message(0, <<Entry(63, 5, 1)>>) EXCEPT !.hasM = FALSE]]
         [] b = 10 -> [utf8 |-> TRUE, json |-> TRUE,    \* {"m":0}
                       msg |-> [Message(0, <<>>) EXCEPT !.hasP = FALSE]]
         [] b = 11 -> [utf8 |-> TRUE, json |-> TRUE,    \* [0,63]
                       msg |-> NoMessage]
         [] b = 12 -> [utf8 |-> TRUE, json |-> TRUE,    \* {"m":0,"p":5}
                       msg |-> [Message(0, <<>>) EXCEPT !.iter = FALSE]]
         [] b = 13 -> [utf8 |-> TRUE, json |-> FALSE,   \* the delimiter, never in a line
                       msg |-> NoMessage]
         [] b = 14 -> [utf8 |-> TRUE, json |-> TRUE,    \* {"m":0,"p":[[63,5]]}
                       msg |-> Message(0, <<[Entry(63, 5, 1) EXCEPT !.vkind = "num", !.vn = 0]>>)]
         [] b = 15 -> [utf8 |-> TRUE, json |-> TRUE,    \* {"m":0,"p":[[63,[5]]]}
                       msg |-> Message(0, <<[Entry(63, 5, 1) EXCEPT !.vn = 1]>>)]
         [] b = 16 -> [utf8 |-> TRUE, json |-> TRUE,    \* {"m":0,"p":[[63,["x",1]]]}
                       msg |-> Message(0, <<[Entry(63, 0, 1) EXCEPT !.fnum = FALSE]>>)]
         [] b = 17 -> [utf8 |-> TRUE, json |-> TRUE,    \* {"m":0,"p":[[63,[5,1]],[63,[3,0]]]}
                       msg |-> Message(0, <<Entry(63, 5, 1), Entry(63, 3, 0)>>)]
         [] b = 18 -> [utf8 |-> TRUE, json |-> TRUE,    \* {"m":0,"p":[[63,[5,1]],[63]]}
                       msg |-> Message(0, <<Entry(63, 5, 1), [Entry(63, 0, 0) EXCEPT !.n = 1]>>)]
         [] b = 19 -> [utf8 |-> TRUE, json |-> TRUE,    \* {"m":0,"p":[7,[99,[5,1]]]}
                       msg |-> Message(0, <<Scalar, Entry(99, 5, 1)>>)]
         [] b = 20 -> [utf8 |-> TRUE, json |-> TRUE,    \* {"m":0,"p":[]}
                       msg |-> Message(0, <<>>)]
         [] b = 21 -> [utf8 |-> TRUE, json |-> TRUE,    \* {"m":0,"p":[[63,{"f":5}]]}
                       msg |-> Message(0, <<[Entry(63, 5, 1) EXCEPT !.vkind = "obj", !.vn = 1]>>)]
         [] b = 22 -> [utf8 |-> TRUE, json |-> FALSE,   \* {"m":0,"p":[[63,    (first half of 1)
                       msg |-> NoMessage]
         [] b = 23 -> [utf8 |-> TRUE, json |-> FALSE,   \* [5,1]]]}            (second half of 1)
                       msg |-> NoMessage]
         [] b = 24 -> [utf8 |-> TRUE, json |-> TRUE,    \* {"m":0,"p":[[]]}
                       msg |-> Message(0, <<[Entry(0, 0, 0) EXCEPT !.n = 0]>>)]]

\* line.decode('utf-8'): the exception raised, "" if none
Utf8Error(line) ==
    IF \E i \in 1..Len(line) : ~Catalogue[line[i]].utf8 THEN "UnicodeDecodeError" ELSE ""

\* json.loads(text): the exception raised, "" if none.  Two blocks make a JSON
\* text only when they are the two halves of one; anything else is extra data.
JsonError(line) ==
    IF line = <<22, 23>> THEN ""
    ELSE IF Len(line) # 1 THEN "JSONDecodeError"
    ELSE IF ~Catalogue[line[1]].json THEN "JSONDecodeError"
    ELSE ""

\* the value json.loads returns when it raises nothing
JsonValue(line) == IF line = <<22, 23>> THEN Catalogue[1].msg ELSE Catalogue[line[1]].msg

\* line 159: message = json.loads(line.decode('utf-8'))
DecodeError(line) == IF Utf8Error(line) # "" THEN Utf8Error(line) ELSE JsonError(line)

\* lines 164-165: message['m'] == 0 and iter(message['p'])
\* "items" when the payload loop is entered, "ignored" when m != 0, else the exception
Dispatch(msg) ==
    IF ~msg.obj THEN "TypeError"
    ELSE IF ~msg.hasM THEN "KeyError"
    ELSE IF msg.m # SensorUpdate THEN "ignored"
    ELSE IF ~msg.hasP THEN "KeyError"
    ELSE IF ~msg.iter THEN "TypeError"
    ELSE "items"

\* (variant: the port index is not compared)
AnyPort(item) == TRUE

\* line 166: item[0] == 63

PortMatches(item) == item.port = ForcePort

\* lines 166-171 for one payload entry: "skip" when it is not a force entry,
\* "reading" when force_value and is_touched were extracted and formatted,
\* else the exception raised
ItemOutcome(item) ==
    IF ~item.list THEN "skip"                              \* isinstance(item, list)
    ELSE IF item.n = 0 THEN "IndexError"                   \* item[0]
    ELSE IF ~PortMatches(item) THEN "skip"
    ELSE IF item.n < 2 THEN "IndexError"                   \* item[1]
    ELSE IF item.vkind = "num" THEN "TypeError"            \* item[1][0]
    ELSE IF item.vkind = "obj" THEN "KeyError"
    ELSE IF item.vn < 1 THEN "IndexError"
    ELSE IF item.vn < 2 THEN "IndexError"                  \* item[1][1]
    ELSE IF ~item.fnum THEN "ValueError"                   \* f"{force_value:.2f}"
    ELSE "reading"

\* line 189: except (json.JSONDecodeError, KeyError, IndexError)
Swallowed(e) == e \in {"JSONDecodeError", "KeyError", "IndexError"}

(***************************************************************************)
(* Edge detector, lines 175-188                                            *)
(***************************************************************************)
\* (variant: level-triggered, `not is_pressed` left out)
LevelPress(force, touched, pressed, thr) ==
    IF thr = InstantMode THEN touched ELSE force >= thr

\* (variant: > in place of >= at line 183)
StrictPress(force, touched, pressed, thr) ==
    IF thr = InstantMode
    THEN touched /\ ~pressed
    ELSE force > thr /\ ~pressed

\* (variant: instant mode also compares the force)
ForcedPress(force, touched, pressed, thr) ==
    IF thr = InstantMode
    THEN touched /\ force >= thr /\ ~pressed
    ELSE force >= thr /\ ~pressed

\* TRUE when the reading takes the branch that sets is_pressed and clicks
Press(force, touched, pressed, thr) ==
    IF thr = InstantMode
    THEN touched /\ ~pressed
    ELSE force >= thr /\ ~pressed

\* (variant: the elif branches left out)
StickyRelease(force, touched, pressed, thr) == FALSE

\* TRUE when the reading takes the elif branch that clears is_pressed
Release(force, touched, pressed, thr) ==
    IF thr = InstantMode
    THEN ~touched /\ pressed
    ELSE force < thr /\ pressed

(***************************************************************************)
(* The serial handle: `with serial.Serial(...) as ser` closes on every     *)
(* way out of the block.                                                   *)
(***************************************************************************)
\* (variant: the handle is not scoped by `with`)
LeakOnExit(s) == s

SerialExit(s) == IF s = "open" THEN "closed" ELSE s

\* Where an exception raised inside monitor_device ends up.  inLoop: it was
\* raised inside the try of the while loop (lines 143-200).
SessionEnd(e, inLoop) ==
    IF inLoop /\ e = "SerialException" THEN "disconnect"        \* 195-197: break
    ELSE IF inLoop /\ e = "KeyboardInterrupt" THEN "interrupt"  \* 198-200: return
    ELSE IF e = "SerialException" THEN "open_failed"            \* 202-204
    ELSE IF e = "KeyboardInterrupt" THEN "unhandled"            \* not an Exception
    ELSE "unexpected"                                           \* 205-206

\* (variant: continue in place of break at line 197)
RetryAfter(how) == IF how = "disconnect" THEN "read" ELSE "done"

\* the position of monitor_device after an exception was dealt with
AfterEnd(how) == IF how = "unhandled" THEN "fault" ELSE "done"

Raise(e, inLoop) ==
    /\ exit' = SessionEnd(e, inLoop)
    /\ pc' = AfterEnd(SessionEnd(e, inLoop))
    /\ ser' = SerialExit(ser)

InLoop == pc \in {"read", "line", "item"}
Terminated == pc \in {"done", "fault"}

(***************************************************************************)
(* Config store: load_config, save_config.  The file is a record           *)
(*   exists  os.path.exists(CONFIG_FILE);  text  its contents              *)
(* and its text is a sequence of JSON tokens (white space left out): the   *)
(* punctuation, the quote, the characters of a string as one token, and    *)
(* one token per digit of a number.  A loaded config is a record           *)
(*   error   json.load raised                                              *)
(*   keys    the keys of the dict                                          *)
(*   serial_number, trigger_threshold   their values, when present         *)
(***************************************************************************)
NoFile == [exists |-> FALSE, text |-> <<>>]

EmptyConfig ==
    [error |-> FALSE, keys |-> {}, serial_number |-> "", trigger_threshold |-> 0]

LoadFailed == [EmptyConfig EXCEPT !.error = TRUE]

DigitTokens == <<"0", "1", "2", "3", "4", "5", "6", "7", "8", "9">>

IsDigit(c) == \E d \in 1..10 : DigitTokens[d] = c

DigitValue(c) == (CHOOSE d \in 1..10 : DigitTokens[d] = c) - 1

\* json.dump of an int: its decimal digits, with a sign when negative
RECURSIVE NatText(_)
NatText(n) ==
    IF n < 10
    THEN <<DigitTokens[n + 1]>>
    ELSE NatText(n \div 10) \o <<DigitTokens[(n % 10) + 1]>>

IntText(n) == IF n < 0 THEN <<"-">> \o NatText(0 - n) ELSE NatText(n)

\* json.dump of a str
StrText(str) == <<"\"", str, "\"">>

\* lines 29-34: json.dump({'serial_number': ..., 'trigger_threshold': ...}, f)
JsonDump(serial, thr) ==
    <<"{">> \o StrText("serial_number") \o <<":">> \o StrText(serial) \o <<",">>
           \o StrText("trigger_threshold") \o <<":">> \o IntText(thr) \o <<"}">>

\* the number of digit tokens of t from position i on
RECURSIVE DigitRun(_, _)
DigitRun(t, i) == IF i <= Len(t) /\ IsDigit(t[i]) THEN 1 + DigitRun(t, i + 1) ELSE 0

\* the value of the n digits of t from position i on
RECURSIVE NatValue(_, _, _)
NatValue(t, i, n) ==
    IF n = 0 THEN 0 ELSE NatValue(t, i, n - 1) * 10 + DigitValue(t[i + n - 1])

Tok(t, i) == IF i >= 1 /\ i <= Len(t) THEN t[i] ELSE "<eof>"

\* json.load: the members of an object, from the opening quote of a key at i
RECURSIVE ParseMembers(_, _, _)
ParseMembers(t, i, acc) ==
    IF ~(Tok(t, i) = "\"" /\ Tok(t, i + 2) = "\"" /\ Tok(t, i + 3) = ":")
    THEN LoadFailed
    ELSE LET key  == t[i + 1]
             v    == i + 4
             str  == Tok(t, v) = "\"" /\ Tok(t, v + 2) = "\""
             d0   == IF Tok(t, v) = "-" THEN v + 1 ELSE v
             n    == DigitRun(t, d0)
             num  == IF Tok(t, v) = "-" THEN 0 - NatValue(t, d0, n) ELSE NatValue(t, d0, n)
             next == IF str THEN v + 3 ELSE d0 + n
             got  == IF key = "serial_number" /\ str
                     THEN [acc EXCEPT !.keys = @ \cup {key}, !.serial_number = t[v + 1]]
                     ELSE IF key = "trigger_threshold" /\ ~str /\ n > 0
                     THEN [acc EXCEPT !.keys = @ \cup {key}, !.trigger_threshold = num]
                     ELSE LoadFailed
         IN  IF got.error THEN LoadFailed
             ELSE IF Tok(t, next) = "," THEN ParseMembers(t, next + 1, got)
             ELSE IF Tok(t, next) = "}" /\ next = Len(t) THEN got
             ELSE LoadFailed

\* line 24: json.load(f)
JsonLoad(t) ==
    IF Tok(t, 1) # "{" THEN LoadFailed
    ELSE IF Tok(t, 2) = "}" /\ Len(t) = 2 THEN EmptyConfig
    ELSE ParseMembers(t, 2, EmptyConfig)

\* lines 20-25: load_config()
LoadConfig(f) == IF f.exists THEN JsonLoad(f.text) ELSE EmptyConfig

\* (variant: the file is opened with 'a' and the record appended)
AppendConfig(f, serial, thr) == [exists |-> TRUE, text |-> f.text \o JsonDump(serial, thr)]

\* lines 27-35: save_config(serial_number, threshold): the file after it
SaveConfig(f, serial, thr) == [exists |-> TRUE, text |-> JsonDump(serial, thr)]

(***************************************************************************)
(* Device selection: an enumerated endpoint is a record                    *)
(*   device  the device path;  serial_number  "" when it has none (None)   *)
(***************************************************************************)
\* line 86: 'serial_number' in config and config['serial_number']
HasSavedSerial(cfg) == "serial_number" \in cfg.keys /\ cfg.serial_number # ""

\* (variant: any endpoint that has a serial number matches)
MatchesAny(port, cfg) == port.serial_number # ""

\* line 92: port.serial_number == config['serial_number']
MatchesSaved(port, cfg) == port.serial_number = cfg.serial_number

\* lines 91-97: the position in ports of the first match, 0 when there is none
FirstMatch(ports, cfg) ==
    IF \E i \in 1..Len(ports) : MatchesSaved(ports[i], cfg)
    THEN CHOOSE i \in 1..Len(ports) :
            /\ MatchesSaved(ports[i], cfg)
            /\ \A j \in 1..(i - 1) : ~MatchesSaved(ports[j], cfg)
    ELSE 0

\* (variant: `and` in place of `or` at line 106)
ResolvedEither(port, serial) == ~(port = "" /\ serial = "")

\* line 106: not (not spike_port or not serial_number)
Resolved(port, serial) == ~(port = "" \/ serial = "")

\* line 114: config.get('trigger_threshold', 1)
DefaultThreshold(cfg) ==
    IF "trigger_threshold" \in cfg.keys THEN cfg.trigger_threshold ELSE 1

(***************************************************************************)
(* Initial state: monitor_device(port, threshold) has just been called     *)
(***************************************************************************)
\* main, lines 81-124, has selected the first device, saved the config and
\* called monitor_device(spike_port, trigger_threshold)
MainCalledMonitor ==
    /\ mpc = "running"
    /\ file = SaveConfig(NoFile, "ABC123", threshold)
    /\ config = EmptyConfig
    /\ comports = <<[device |-> "COM3", serial_number |-> "ABC123"]>>
    /\ spike_port = "COM3"
    /\ serial_number = "ABC123"
    /\ trigger_threshold = threshold
    /\ selects = 1
    /\ saves = 1

Init ==
    /\ pc = "open"
    /\ exit = ""
    /\ ser = "absent"
    /\ opens = 0
    /\ threshold \in Thresholds
    /\ recv_buf = <<>>
    /\ is_pressed = FALSE
    /\ pending = <<>>
    /\ idx = 0
    /\ log = <<>>
    /\ inLine = [pressed |-> FALSE, clicks |-> 0, readings |-> 0, flips |-> 0]
    /\ stream = <<>>
    /\ emitted = <<>>
    /\ readings = <<>>
    /\ clickAt = <<>>
    /\ MainCalledMonitor

(***************************************************************************)
(* Actions                                                                 *)
(***************************************************************************)
\* lines 132-137: serial.Serial(port, 115200, timeout=1) succeeds
Open ==
    /\ pc = "open"
    /\ pc' = "sleep"
    /\ ser' = "open"
    /\ opens' = opens + 1
    /\ UNCHANGED <<exit, threshold, recv_buf, is_pressed, pending, idx, log, inLine,
                   stream, emitted, readings, clickAt>>
    /\ UNCHANGED mainVars

\* line 136 raises serial.SerialException
OpenFails ==
    /\ pc = "open"
    /\ Raise("SerialException", FALSE)
    /\ UNCHANGED <<opens, threshold, recv_buf, is_pressed, pending, idx, log, inLine,
                   stream, emitted, readings, clickAt>>
    /\ UNCHANGED mainVars

\* lines 137-142: time.sleep(1), Live entered, the loop starts
Stabilise ==
    /\ pc = "sleep"
    /\ pc' = "read"
    /\ UNCHANGED <<exit, ser, opens, threshold, recv_buf, is_pressed, pending,
                   idx, log, inLine, stream, emitted, readings, clickAt>>
    /\ UNCHANGED mainVars

\* lines 146-154: one read_until returning data, up to the split
Read(data) ==
    /\ pc = "read"
    /\ stream' = stream \o data
    /\ IF data = <<>>
       THEN UNCHANGED <<pc, recv_buf, pending>>                    \* continue
       ELSE /\ recv_buf' = recv_buf \o data                        \* extend
            /\ IF HasCR(recv_buf \o data)
               THEN pc' = "line" /\ pending' = CompleteLines(recv_buf \o data)
               ELSE UNCHANGED <<pc, pending>>
    /\ UNCHANGED <<exit, ser, opens, threshold, is_pressed, idx, log, inLine, emitted,
                   readings, clickAt>>
    /\ UNCHANGED mainVars

\* line 146 raises serial.SerialException
ReadFails ==
    /\ pc = "read"
    /\ Raise("SerialException", TRUE)
    /\ UNCHANGED <<opens, threshold, recv_buf, is_pressed, pending, idx, log, inLine,
                   stream, emitted, readings, clickAt>>
    /\ UNCHANGED mainVars

\* the current line is finished: the for loop takes the next one
NextLine ==
    /\ pc' = "line"
    /\ pending' = Tail(pending)
    /\ idx' = 0
    /\ UNCHANGED <<exit, ser>>

\* an exception raised while the current line is processed
LineRaises(e) ==
    IF Swallowed(e)
    THEN NextLine
    ELSE Raise(e, TRUE) /\ UNCHANGED <<pending, idx>>

\* lines 155-165: the next complete line, up to the payload loop
ProcessLine ==
    /\ pc = "line"
    /\ pending # <<>>
    /\ LET line == Head(pending) IN
       IF line = <<>>
       THEN NextLine /\ UNCHANGED <<emitted, inLine>>               \* 156-157
       ELSE /\ emitted' = Append(emitted, line)
            /\ inLine' = [pressed |-> is_pressed, clicks |-> Len(clickAt),
                          readings |-> Len(readings), flips |-> 0]
            /\ IF DecodeError(line) # ""
               THEN LineRaises(DecodeError(line))
               ELSE LET d == Dispatch(JsonValue(line)) IN
                    IF d = "ignored" THEN NextLine
                    ELSE IF d # "items" THEN LineRaises(d)
                    ELSE IF JsonValue(line).p = <<>> THEN NextLine
                    ELSE /\ pc' = "item"
                         /\ idx' = 1
                         /\ UNCHANGED <<exit, ser, pending>>
    /\ UNCHANGED <<opens, threshold, recv_buf, is_pressed, log, stream, readings,
                   clickAt>>
    /\ UNCHANGED mainVars

\* the payload loop moves on: next entry, or the line is finished
NextItem ==
    IF idx = Len(JsonValue(Head(pending)).p)
    THEN NextLine
    ELSE idx' = idx + 1 /\ UNCHANGED <<pc, pending, exit, ser>>

\* lines 166-188: one payload entry
ProcessItem ==
    /\ pc = "item"
    /\ LET item    == JsonValue(Head(pending)).p[idx]
           out     == ItemOutcome(item)
           touched == item.touch = 1                                \* line 168
           press   == Press(item.force, touched, is_pressed, threshold)
           release == Release(item.force, touched, is_pressed, threshold)
       IN
       IF out = "skip"
       THEN NextItem /\ log' = <<>> /\ UNCHANGED <<is_pressed, readings, clickAt, inLine>>
       ELSE IF out # "reading"
       THEN LineRaises(out) /\ log' = <<>> /\ UNCHANGED <<is_pressed, readings, clickAt, inLine>>
       ELSE /\ readings' = Append(readings, [force |-> item.force, touched |-> touched])
            /\ is_pressed' = IF press THEN TRUE
                             ELSE IF release THEN FALSE
                             ELSE is_pressed
            /\ clickAt' = IF press THEN Append(clickAt, Len(readings) + 1) ELSE clickAt
            /\ log' = <<"display">> \o (IF press THEN <<"click">> ELSE <<>>)
            /\ inLine' = [inLine EXCEPT !.flips = IF press \/ release THEN @ + 1 ELSE @]
            /\ NextItem
    /\ UNCHANGED <<opens, threshold, recv_buf, stream, emitted>>
    /\ UNCHANGED mainVars

\* line 193: every line is done, the buffer keeps the bytes after the last delimiter
FinishLines ==
    /\ pc = "line"
    /\ pending = <<>>
    /\ recv_buf' = Remainder(recv_buf)
    /\ pc' = "read"
    /\ UNCHANGED <<exit, ser, opens, threshold, is_pressed, pending, idx, log, inLine,
                   stream, emitted, readings, clickAt>>
    /\ UNCHANGED mainVars

\* CTRL+C while lines 132-142 run (open, sleep, entering Live)
InterruptSetup ==
    /\ pc \in {"open", "sleep"}
    /\ Raise("KeyboardInterrupt", FALSE)
    /\ UNCHANGED <<opens, threshold, recv_buf, is_pressed, pending, idx, log, inLine,
                   stream, emitted, readings, clickAt>>
    /\ UNCHANGED mainVars

\* CTRL+C while lines 143-193 run (the blocking read, line processing)
InterruptLoop ==
    /\ InLoop
    /\ Raise("KeyboardInterrupt", TRUE)
    /\ UNCHANGED <<opens, threshold, recv_buf, is_pressed, pending, idx, log, inLine,
                   stream, emitted, readings, clickAt>>
    /\ UNCHANGED mainVars

(***************************************************************************)
(* What read_until(b'\r') returns                                          *)
(***************************************************************************)
Blocks == (1..24) \ {CR}

\* a whole line with its delimiter, a timeout with nothing, a timeout in mid-line
LineChunks == {<<b, CR>> : b \in Blocks} \cup {<<>>, <<22>>}

\* any bytes at all, of the two halves of a message and the delimiter
FramerBytes == {22, 23, CR}
FramerChunks == UNION {[1..n -> FramerBytes] : n \in 0..MaxChunk}

\* whole lines that each carry one force reading
ReadingChunks == {<<b, CR>> : b \in 1..4}

MonitorRead ==
    \E data \in LineChunks : Len(stream) + Len(data) <= MaxStream /\ Read(data)

FramerRead ==
    \E data \in FramerChunks : Len(stream) + Len(data) <= MaxFramed /\ Read(data)

EdgeRead ==
    \E data \in ReadingChunks : Len(readings) < MaxReadings /\ Read(data)

Next ==
    \/ Open
    \/ OpenFails
    \/ Stabilise
    \/ MonitorRead
    \/ ReadFails
    \/ ProcessLine
    \/ ProcessItem
    \/ FinishLines
    \/ InterruptSetup
    \/ InterruptLoop

Spec == Init /\ [][Next]_vars

NextFramer ==
    \/ Open
    \/ Stabilise
    \/ FramerRead
    \/ ProcessLine
    \/ ProcessItem
    \/ FinishLines

SpecFramer == Init /\ [][NextFramer]_vars

NextEdge ==
    \/ Open
    \/ Stabilise
    \/ EdgeRead
    \/ ProcessLine
    \/ ProcessItem
    \/ FinishLines

SpecEdge == Init /\ [][NextEdge]_vars

(***************************************************************************)
(* main, lines 76-124                                                      *)
(***************************************************************************)
Serials == {"ABC123", "XYZ9"}
Devices == {"COM3", "COM4"}

\* what serial.tools.list_ports.comports() can return
Ports == [device : Devices, serial_number : Serials \cup {""}]
PortLists == UNION {[1..n -> Ports] : n \in 0..MaxPorts}

\* what the user can type at the threshold prompt
Entered == {-1, 0, 1, 3, 10, 11}

\* the config file at startup: none, or one that an earlier session saved
InitialFiles ==
    {NoFile} \cup {SaveConfig(NoFile, sn, thr) : sn \in Serials, thr \in {1, 3, 10}}

\* monitor_device has not been called
MonitorIdle ==
    /\ pc = "idle"
    /\ exit = ""
    /\ ser = "absent"
    /\ opens = 0
    /\ threshold = 0
    /\ recv_buf = <<>>
    /\ is_pressed = FALSE
    /\ pending = <<>>
    /\ idx = 0
    /\ log = <<>>
    /\ inLine = [pressed |-> FALSE, clicks |-> 0, readings |-> 0, flips |-> 0]
    /\ stream = <<>>
    /\ emitted = <<>>
    /\ readings = <<>>
    /\ clickAt = <<>>

\* main has just been called
InitMain ==
    /\ MonitorIdle
    /\ mpc = "load"
    /\ file \in InitialFiles
    /\ config = EmptyConfig
    /\ comports = <<>>
    /\ spike_port = ""
    /\ serial_number = ""
    /\ trigger_threshold = 0
    /\ selects = 0
    /\ saves = 0

\* lines 81-86: config = load_config(), and the test for a saved serial number
MainLoad ==
    /\ mpc = "load"
    /\ config' = LoadConfig(file)
    /\ mpc' = IF LoadConfig(file).error THEN "fault"
              ELSE IF HasSavedSerial(LoadConfig(file)) THEN "confirm"
              ELSE "select"                                          \* line 104
    /\ UNCHANGED <<file, comports, spike_port, serial_number, trigger_threshold,
                   selects, saves>>
    /\ UNCHANGED monitorVars

\* line 87: Confirm.ask("Found saved serial number ... Use this device?")
ConfirmSaved(answer) ==
    /\ mpc = "confirm"
    /\ mpc' = IF answer THEN "lookup" ELSE "select"                  \* line 102
    /\ UNCHANGED <<file, config, comports, spike_port, serial_number,
                   trigger_threshold, selects, saves>>
    /\ UNCHANGED monitorVars

\* lines 89-100: the saved device is looked for among the enumerated endpoints
LookupSaved(ports) ==
    /\ mpc = "lookup"
    /\ comports' = ports
    /\ IF FirstMatch(ports, config) # 0
       THEN /\ spike_port' = ports[FirstMatch(ports, config)].device
            /\ serial_number' = ports[FirstMatch(ports, config)].serial_number
            /\ mpc' = "resolved"
       ELSE /\ mpc' = "select"                                       \* line 100
            /\ UNCHANGED <<spike_port, serial_number>>
    /\ UNCHANGED <<file, config, trigger_threshold, selects, saves>>
    /\ UNCHANGED monitorVars

\* lines 42-58: select_device() is called and scans
SelectScan(ports) ==
    /\ mpc = "select"
    /\ selects' = selects + 1
    /\ comports' = ports
    /\ IF ports = <<>>
       THEN /\ spike_port' = ""                                      \* return None, None
            /\ serial_number' = ""
            /\ mpc' = "resolved"
       ELSE /\ mpc' = "choose"
            /\ UNCHANGED <<spike_port, serial_number>>
    /\ UNCHANGED <<file, config, trigger_threshold, saves>>
    /\ UNCHANGED monitorVars

\* lines 60-73: one round of the index prompt of select_device
SelectChoose(choice) ==
    /\ mpc = "choose"
    /\ IF 1 <= choice /\ choice <= Len(comports)
       THEN /\ spike_port' = comports[choice].device
            /\ serial_number' = comports[choice].serial_number
            /\ mpc' = "resolved"
       ELSE UNCHANGED <<spike_port, serial_number, mpc>>             \* asked again
    /\ UNCHANGED <<file, config, comports, trigger_threshold, selects, saves>>
    /\ UNCHANGED monitorVars

\* lines 106-107: main returns unless a device and a serial number were resolved
CheckDevice ==
    /\ mpc = "resolved"
    /\ mpc' = IF Resolved(spike_port, serial_number) THEN "prompt" ELSE "end"
    /\ UNCHANGED <<file, config, comports, spike_port, serial_number,
                   trigger_threshold, selects, saves>>
    /\ UNCHANGED monitorVars

\* lines 114-119: IntPrompt.ask returns what was typed
PromptEntered(n) ==
    /\ mpc = "prompt"
    /\ trigger_threshold' = n
    /\ mpc' = "save"
    /\ UNCHANGED <<file, config, comports, spike_port, serial_number, selects, saves>>
    /\ UNCHANGED monitorVars

\* lines 114-119: IntPrompt.ask returns the default on an empty answer
PromptDefault ==
    /\ mpc = "prompt"
    /\ trigger_threshold' = DefaultThreshold(config)
    /\ mpc' = "save"
    /\ UNCHANGED <<file, config, comports, spike_port, serial_number, selects, saves>>
    /\ UNCHANGED monitorVars

\* line 121: save_config(serial_number, trigger_threshold)
MainSave ==
    /\ mpc = "save"
    /\ file' = SaveConfig(file, serial_number, trigger_threshold)
    /\ saves' = saves + 1
    /\ mpc' = "monitor"
    /\ UNCHANGED <<config, comports, spike_port, serial_number, trigger_threshold,
                   selects>>
    /\ UNCHANGED monitorVars

\* line 124: monitor_device(spike_port, trigger_threshold) is called
StartMonitor ==
    /\ mpc = "monitor"
    /\ mpc' = "running"
    /\ pc' = "open"
    /\ threshold' = trigger_threshold
    /\ UNCHANGED <<exit, ser, opens, recv_buf, is_pressed, pending, idx, log, inLine,
                   stream, emitted, readings, clickAt>>
    /\ UNCHANGED <<file, config, comports, spike_port, serial_number,
                   trigger_threshold, selects, saves>>

Confirms == \E answer \in BOOLEAN : ConfirmSaved(answer)
Lookups == \E ports \in PortLists : LookupSaved(ports)
Scans == \E ports \in PortLists : SelectScan(ports)
Chooses == \E choice \in 0..(MaxPorts + 1) : SelectChoose(choice)
Prompts == \E n \in Entered : PromptEntered(n)

NextMain ==
    \/ MainLoad
    \/ Confirms
    \/ Lookups
    \/ Scans
    \/ Chooses
    \/ CheckDevice
    \/ Prompts
    \/ PromptDefault
    \/ MainSave
    \/ StartMonitor

SpecMain == InitMain /\ [][NextMain]_vars

(***************************************************************************)
(* The config store on its own: any sequence of saves and loads            *)
(***************************************************************************)
InitConfig ==
    /\ MonitorIdle
    /\ mpc = "fresh"
    /\ file = NoFile
    /\ config = EmptyConfig
    /\ comports = <<>>
    /\ spike_port = ""
    /\ serial_number = ""
    /\ trigger_threshold = 0
    /\ selects = 0
    /\ saves = 0

\* save_config(serial, thr) is called
CallSave(serial, thr) ==
    /\ saves < MaxSaves
    /\ file' = SaveConfig(file, serial, thr)
    /\ serial_number' = serial
    /\ trigger_threshold' = thr
    /\ saves' = saves + 1
    /\ mpc' = "saved"
    /\ UNCHANGED <<config, comports, spike_port, selects>>
    /\ UNCHANGED monitorVars

\* load_config() is called
CallLoad ==
    /\ config' = LoadConfig(file)
    /\ mpc' = "loaded"
    /\ UNCHANGED <<file, comports, spike_port, serial_number, trigger_threshold,
                   selects, saves>>
    /\ UNCHANGED monitorVars

Saves == \E serial \in Serials : \E thr \in Entered : CallSave(serial, thr)

NextConfig ==
    \/ Saves
    \/ CallLoad

SpecConfig == InitConfig /\ [][NextConfig]_vars

(***************************************************************************)
(* Properties                                                              *)
(***************************************************************************)
\* the press condition of a reading, as the specification states it
PressCondition(r) == IF threshold = 1 THEN r.touched ELSE r.force >= threshold

\* the positions of the readings that caused a click
ClickPositions == {clickAt[j] : j \in 1..Len(clickAt)}

Increasing(s) == \A j \in 1..(Len(s) - 1) : s[j] < s[j + 1]

Forces == [i \in 1..Len(readings) |-> readings[i].force]
Touches == [i \in 1..Len(readings) |-> readings[i].touched]

\* C1: clicks are edge-triggered.  A click is emitted only by a reading that
\* changes is_pressed from false to true; between two consecutive clicks there
\* is a reading whose press condition is false; and a run of N >= 1
\* consecutive readings that all satisfy the press condition, begun from the
\* released state, produces exactly one click.
C1_EdgeTriggered ==
    /\ [][clickAt' # clickAt =>
            /\ ~is_pressed /\ is_pressed'
            /\ readings' # readings
            /\ clickAt' = Append(clickAt, Len(readings'))]_vars
    /\ [](\A j \in 1..(Len(clickAt) - 1) :
            \E i \in (clickAt[j] + 1)..(clickAt[j + 1] - 1) : ~PressCondition(readings[i]))
    /\ [](\A a \in 1..Len(readings) : \A b \in a..Len(readings) :
            (/\ \A i \in a..b : PressCondition(readings[i])
             /\ a = 1 \/ ~PressCondition(readings[a - 1]))
            => Cardinality(ClickPositions \cap (a..b)) = 1)

\* C1 witness: three readings held pressed gave one click, and after a release
\* a second one was emitted
C1_Witness ==
    /\ Len(readings) = 5
    /\ \A i \in 1..3 : PressCondition(readings[i])
    /\ ~PressCondition(readings[4])
    /\ PressCondition(readings[5])
    /\ clickAt = <<1, 5>>

\* C2: in threshold mode the clicks are exactly the positions i with
\* f_i >= threshold and (i = 1 or f_(i-1) < threshold); threshold 5 with forces
\* 3,5,6,4,5 gives exactly two clicks, at positions 2 and 5.
C2_ThresholdClicks ==
    threshold # 1 =>
        /\ ClickPositions =
             {i \in 1..Len(readings) :
                 /\ readings[i].force >= threshold
                 /\ i = 1 \/ readings[i - 1].force < threshold}
        /\ Increasing(clickAt)
        /\ (threshold = 5 /\ Forces = <<3, 5, 6, 4, 5>>) => clickAt = <<2, 5>>

\* C2 witness: the example run has been processed
C2_Witness == threshold = 5 /\ Forces = <<3, 5, 6, 4, 5>> /\ Len(clickAt) = 2

\* C3: in instant mode the clicks are exactly the positions i with t_i true and
\* (i = 1 or t_(i-1) false); touched = false,true,true,false,true gives exactly
\* two clicks, at positions 2 and 5.
C3_InstantClicks ==
    threshold = 1 =>
        /\ ClickPositions =
             {i \in 1..Len(readings) :
                 /\ readings[i].touched
                 /\ i = 1 \/ ~readings[i - 1].touched}
        /\ Increasing(clickAt)
        /\ Touches = <<FALSE, TRUE, TRUE, FALSE, TRUE>> => clickAt = <<2, 5>>

\* C3 witness: the example run has been processed
C3_Witness ==
    threshold = 1 /\ Touches = <<FALSE, TRUE, TRUE, FALSE, TRUE>> /\ Len(clickAt) = 2

\* a line that cannot be decoded into a sensor reading: bad UTF-8, bad JSON,
\* missing keys or a wrong shape
Undecodable(line) ==
    \/ DecodeError(line) # ""
    \/ Dispatch(JsonValue(line)) \notin {"items", "ignored"}
    \/ /\ Dispatch(JsonValue(line)) = "items"
       /\ \E i \in 1..Len(JsonValue(line).p) :
            ItemOutcome(JsonValue(line).p[i]) \notin {"skip", "reading"}

\* C4: a line that cannot be decoded is discarded and never ends the
\* monitoring loop: unless the user interrupts, the loop is still running after
\* every step taken on such a line.
C4_UndecodableNeverEndsLoop ==
    [][(/\ pc \in {"line", "item"}
        /\ pending # <<>>
        /\ Undecodable(Head(pending))
        /\ exit' # "interrupt")
       => InLoop']_vars

\* the bytes of s after its last delimiter
AfterLastCR(s) ==
    LET k == CHOOSE k \in 0..Len(s) :
                 /\ k = 0 \/ s[k] = CR
                 /\ \A i \in (k + 1)..Len(s) : s[i] # CR
    IN  [i \in 1..(Len(s) - k) |-> s[k + i]]

\* C5: at the end of every iteration of the loop recv_buf contains no
\* delimiter: it holds exactly the bytes received after the last delimiter.
C5_BufferHoldsIncompleteLine ==
    pc = "read" =>
        /\ \A i \in 1..Len(recv_buf) : recv_buf[i] # CR
        /\ recv_buf = AfterLastCR(stream)

\* C5 witness: lines were split off and an unfinished line stays in the buffer
C5_Witness ==
    /\ pc = "read"
    /\ Len(emitted) >= 2
    /\ recv_buf = <<22>>
    /\ \E i \in 1..(Len(stream) - 1) : stream[i] = CR /\ stream[i + 1] = CR

\* the lines with their delimiters put back
RECURSIVE Join(_)
Join(lines) ==
    IF lines = <<>> THEN <<>> ELSE Head(lines) \o <<CR>> \o Join(Tail(lines))

\* s without its empty segments: a delimiter that ends an empty segment is dropped
RECURSIVE SqueezeFrom(_, _)
SqueezeFrom(s, atStart) ==
    IF s = <<>> THEN <<>>
    ELSE IF Head(s) = CR /\ atStart THEN SqueezeFrom(Tail(s), TRUE)
    ELSE <<Head(s)>> \o SqueezeFrom(Tail(s), Head(s) = CR)

Squeeze(s) == SqueezeFrom(s, TRUE)

NonEmpty(line) == line # <<>>

\* C6: framing does not depend on the chunk boundaries.  Whatever chunks the
\* stream arrived in, the lines handed to the decoder and the buffer are those
\* of the whole stream fed as one chunk, and the lines with their delimiters
\* put back, followed by the buffer, are the stream without its empty segments.
C6_FramingIgnoresChunking ==
    pc = "read" =>
        /\ emitted = SelectSeq(CompleteLines(stream), NonEmpty)
        /\ recv_buf = Remainder(stream)
        /\ Join(emitted) \o recv_buf = Squeeze(stream)

\* C6 witness: a message and other lines were framed out of a stream with an
\* empty segment, and an unfinished tail is buffered
C6_Witness ==
    /\ pc = "read"
    /\ \E j \in 1..Len(emitted) : emitted[j] = <<22, 23>>
    /\ Len(emitted) >= 2
    /\ \E i \in 1..(Len(stream) - 1) : stream[i] = CR /\ stream[i + 1] = CR
    /\ recv_buf # <<>>

\* a well-formed line that does not carry the force-sensor channel
NoForceChannel(line) ==
    /\ DecodeError(line) = ""
    /\ LET msg == JsonValue(line) IN
       /\ msg.obj /\ msg.hasM /\ msg.hasP /\ msg.iter
       /\ \A i \in 1..Len(msg.p) : msg.p[i].list => msg.p[i].n = 2
       /\ \/ msg.m # 0
          \/ \A i \in 1..Len(msg.p) : ~(msg.p[i].list /\ msg.p[i].port = 63)

\* C7: processing a well-formed line whose kind is not 0, or whose payload has
\* no entry for port 63, produces no reading, emits no click and leaves
\* is_pressed unchanged.
C7_OnlyForceChannel ==
    [][(pc \in {"line", "item"} /\ pending # <<>> /\ NoForceChannel(Head(pending)))
       => UNCHANGED <<is_pressed, clickAt, readings>>]_vars

\* C7 witness: pressed, then a wrong-port line and a wrong-kind line were
\* processed, and the detector is still pressed with its one click
C7_Witness ==
    /\ pc = "read"
    /\ emitted = <<<<1>>, <<6>>, <<5>>>>
    /\ is_pressed
    /\ clickAt = <<1>>

\* C8: the port is opened at most once, and whenever monitor_device has
\* terminated the serial connection is not open: closed if it was opened.
C8_SerialReleased ==
    /\ opens <= 1
    /\ Terminated => ser # "open" /\ (opens = 1 => ser = "closed")

\* C8 witness: the session was interrupted in the loop and the port is closed
C8_Witness == pc = "done" /\ exit = "interrupt" /\ opens = 1 /\ ser = "closed"

\* C9: once a read has raised a serial error in the loop, monitor_device has
\* terminated with the port closed, and nothing happens any more: no read, no
\* reopening, no click.
C9_DisconnectEndsSession ==
    /\ [](exit = "disconnect" => pc = "done" /\ ser = "closed")
    /\ [][exit = "disconnect" => UNCHANGED <<stream, opens, clickAt, pc, ser>>]_vars

\* C9 witness: the link dropped after a click
C9_Witness == exit = "disconnect" /\ pc = "done" /\ Len(clickAt) >= 1

\* C10: an interrupt, wherever it arrives, ends the session through a handled
\* path: monitor_device is never left by an unhandled exception.
C10_InterruptHandledEverywhere == pc # "fault"

\* the value of is_pressed after a reading, had its force been f
PressedAfter(f, touched) ==
    IF Press(f, touched, is_pressed, threshold) THEN TRUE
    ELSE IF Release(f, touched, is_pressed, threshold) THEN FALSE
    ELSE is_pressed

\* C14: in instant mode the force has no influence on the edge detector.  The
\* step taken on a reading is the step every other force value with the same
\* touched flag would have taken: the same next is_pressed, a click or none
\* alike.  Two runs with the same touched flags therefore go through the same
\* states and click at the same positions.
C14_ForceIgnoredInInstantMode ==
    [][(threshold = 1 /\ readings' # readings) =>
         \A f \in 0..10 :
            /\ is_pressed' = PressedAfter(f, readings'[Len(readings')].touched)
            /\ (clickAt' # clickAt) =
                  Press(f, readings'[Len(readings')].touched, is_pressed, threshold)]_vars

\* C14 witness: instant mode, touched readings with forces 4 and 5 both clicked
\* and an untouched reading with the largest force released
C14_Witness ==
    /\ threshold = 1
    /\ Touches = <<TRUE, FALSE, TRUE>>
    /\ Forces = <<4, 6, 5>>
    /\ clickAt = <<1, 3>>

\* C17: is_pressed is false before the first reading, and after every reading
\* it equals that reading's press condition: force >= threshold in threshold
\* mode (a force exactly at the threshold leaves it pressed), touched in
\* instant mode.
C17_PressedIsPressCondition ==
    IF readings = <<>>
    THEN ~is_pressed
    ELSE is_pressed = PressCondition(readings[Len(readings)])

\* C17 witness: a force exactly at the threshold, after a release, is pressed
C17_Witness ==
    /\ threshold = 5
    /\ Forces = <<5, 3, 5>>
    /\ is_pressed
    /\ clickAt = <<1, 3>>

\* C15: a line yields at most one reading: while and after a line is
\* processed, it has produced at most one reading, changed is_pressed at most
\* once and emitted at most one click.
C15_OneReadingPerLine ==
    /\ Len(readings) - inLine.readings <= 1
    /\ inLine.flips <= 1
    /\ Len(clickAt) - inLine.clicks <= 1

\* C16: a discarded line has no effect on the edge detector: when a payload
\* entry raises an exception that the loop swallows, the line has emitted no
\* click and is_pressed is what it was before the line.
C16_DiscardedLineHasNoEffect ==
    [][(/\ pc = "item"
        /\ ItemOutcome(JsonValue(Head(pending)).p[idx])
              \in {"JSONDecodeError", "KeyError", "IndexError"}
        /\ pc' = "line")
       => /\ is_pressed' = inLine.pressed
          /\ Len(clickAt') = inLine.clicks]_vars

\* C18: for every reading the click of a rising edge is emitted before the
\* display is updated: the display update never comes before the click.
C18_ClickBeforeDisplay ==
    \A i \in 1..Len(log) : \A j \in (i + 1)..Len(log) :
        ~(log[i] = "display" /\ log[j] = "click")

\* the record an intact config file holds after save_config(serial, thr)
Record(serial, thr) ==
    [error |-> FALSE, keys |-> {"serial_number", "trigger_threshold"},
     serial_number |-> serial, trigger_threshold |-> thr]

\* C11: every record that save_config has written has a trigger_threshold
\* between 0 and 10, whatever the user entered at the threshold prompt and
\* whatever config was saved before.
C11_PersistedThresholdInRange ==
    saves >= 1 =>
        /\ LoadConfig(file).trigger_threshold >= 0
        /\ LoadConfig(file).trigger_threshold <= 10

\* C12: load_config() after save_config(serial_number, threshold) returns a
\* record with exactly those two values, however many saves came before, and
\* load_config() with no file returns the empty record and no error.
C12_ConfigRoundTrip ==
    mpc = "loaded" =>
        IF saves = 0
        THEN config = EmptyConfig
        ELSE config = Record(serial_number, trigger_threshold)

C12_Witness ==
    /\ mpc = "loaded"
    /\ saves = 2
    /\ config = Record("ABC123", 3)

\* C13: with a saved serial number and the user's confirmation, main takes the
\* device path of an enumerated endpoint whose serial number is the saved one
\* and select_device is not called; when no endpoint has that serial number,
\* when the user declines and when no serial number is saved, the next thing
\* main does is call select_device.
C13_SavedDeviceFallback ==
    [][/\ (mpc = "load" /\ ~config'.error /\ ~HasSavedSerial(config')) => mpc' = "select"
       /\ (mpc = "load" /\ HasSavedSerial(config')) => mpc' = "confirm"
       /\ mpc = "confirm" => (mpc' \in {"lookup", "select"} /\ selects' = 0)
       /\ mpc = "lookup" =>
            IF \E i \in 1..Len(comports') :
                    comports'[i].serial_number = config.serial_number
            THEN /\ mpc' = "resolved"
                 /\ selects' = 0
                 /\ serial_number' = config.serial_number
                 /\ \E i \in 1..Len(comports') :
                        comports'[i] = [device |-> spike_port',
                                        serial_number |-> config.serial_number]
            ELSE mpc' = "select"
       /\ mpc = "select" => selects' = selects + 1]_vars

C13_Witness ==
    /\ mpc = "resolved"
    /\ selects = 0
    /\ Len(comports) = 2
    /\ comports[1].serial_number = "XYZ9"
    /\ comports[2].serial_number = config.serial_number
    /\ spike_port = comports[2].device
    /\ spike_port # comports[1].device

\* C19: once monitor_device has been started, a device with a non-empty path
\* and a non-empty serial number was resolved, save_config has written that
\* serial number with the entered threshold, and the monitor runs with that
\* threshold; with no device or no serial number main ends, and then nothing
\* was saved and no monitoring was started.
C19_SetupOrdering ==
    /\ [](pc # "idle" =>
            /\ spike_port # ""
            /\ serial_number # ""
            /\ \E i \in 1..Len(comports) :
                   comports[i] = [device |-> spike_port, serial_number |-> serial_number]
            /\ saves = 1
            /\ LoadConfig(file) = Record(serial_number, trigger_threshold)
            /\ threshold = trigger_threshold)
    /\ [](mpc = "end" => (pc = "idle" /\ saves = 0 /\ file \in InitialFiles))
    /\ [][(mpc = "resolved" /\ (spike_port = "" \/ serial_number = ""))
            => mpc' = "end"]_vars

C19_Witness ==
    /\ mpc = "running"
    /\ pc = "open"
    /\ selects = 1
    /\ spike_port = "COM4"
    /\ serial_number = "XYZ9"
    /\ threshold = 3
    /\ LoadConfig(file) = Record("XYZ9", 3)

====
